---- MODULE Spec2Model ----
(***************************************************************************)
(* DBSCAN of src/dbscan.rs: Dbscan::new (the fit) and Dbscan::predict.     *)
(*                                                                         *)
(* Points are rows of integer coordinates; a Vec or an Array2 is a         *)
(* sequence.  Sequences are 1-based here: row i of the source is row i+1   *)
(* of the model, so the order of the indices (which point a pop() of the   *)
(* sorted working set yields) is the order of the source.                  *)
(***************************************************************************)
EXTENDS Integers, Sequences, FiniteSets, TLC

(***************************************************************************)
(* Bounds of the enumerated inputs.                                        *)
(***************************************************************************)
MaxN == 2          \* rows of an enumerated one-column point set
MaxCoord == 2      \* enumerated coordinates are 0..MaxCoord
MaxEps == 2        \* enumerated eps are 1..MaxEps
MaxMinPoints == 2  \* enumerated min_points are 1..MaxMinPoints

Range(s) == {s[i] : i \in 1..Len(s)}

SeqsUpTo(S, n) == UNION {[1..k -> S] : k \in 0..n}

Perms(n) == {p \in [1..n -> 1..n] : \A i, j \in 1..n : i # j => p[i] # p[j]}

Identity(n) == [i \in 1..n |-> i]

(***************************************************************************)
(* Arguments of Dbscan::new.  Besides every one-column point set within    *)
(* the bounds, the point sets of the tests of the source, scaled to        *)
(* integers:                                                               *)
(*   test_border_points  x20, eps 0.5 -> 10;                               *)
(*   test_clusters       x10, eps 0.5 -> 5, rows 0,1,4,5,6,7 of the test;  *)
(* a chain of three rows with a row apart from it, and a point set with a  *)
(* non-core row between two clusters.                                      *)
(***************************************************************************)
BorderPoints ==
    [data : { << <<31>>, <<40>>, <<42>>, <<44>>, <<53>> >> },
     eps : {10}, min_points : {3}, borders : BOOLEAN]

ClusterPoints ==
    [data : { << <<10, 20>>, <<11, 22>>, <<-20, 30>>, <<-22, 31>>,
                 <<-10, -20>>, <<-20, -10>> >> },
     eps : {5}, min_points : {2}, borders : {FALSE}]

ChainPoints ==
    [data : { << <<0>>, <<1>>, <<2>>, <<4>> >> },
     eps : {1}, min_points : {1}, borders : BOOLEAN]

TiePoints ==
    [data : { << <<0>>, <<0>>, <<1>>, <<2>>, <<3>>, <<4>>, <<4>> >> },
     eps : {1}, min_points : {4}, borders : {TRUE}]

Fixtures == BorderPoints \cup ClusterPoints \cup ChainPoints \cup TiePoints

GridRows(cols) == [1..cols -> 0..MaxCoord]

Inputs ==
    [data : SeqsUpTo(GridRows(1), MaxN), eps : 1..MaxEps,
     min_points : 1..MaxMinPoints, borders : BOOLEAN]
        \cup Fixtures

EpsValues == {i.eps : i \in Inputs}

\* data.cols(); an Array2 without rows is taken with one column
Cols(d) == IF d = <<>> THEN 1 ELSE Len(d[1])

\* a row far from every enumerated row
FarRow(cols) == [k \in 1..cols |-> 100]

\* the rows a caller of predict asks about: the reference rows, the grid (for
\* one column) and the far row
NewRows(d) ==
    Range(d) \cup {FarRow(Cols(d))} \cup (IF Cols(d) = 1 THEN GridRows(1) ELSE {})

\* the new_data of a predict call: no row, one row, or a row and the far row
NewData(d) == {<<>>} \cup {<<r>> : r \in NewRows(d)}
                  \cup {<<r, FarRow(Cols(d))>> : r \in NewRows(d)}

\* a row with one column more than the rows of d
WideRow(d) == [k \in 1..(Cols(d) + 1) |-> 0]

\* the new_data of a predict call whose rows have one column more than the
\* reference rows: no row, one row or two rows
WideData(d) == {<<>>, <<WideRow(d)>>, <<WideRow(d), WideRow(d)>>}

\* the arrays a predict call is given, each with its number of columns
NewArrays(d) == {[cols |-> Cols(d), rows |-> r] : r \in NewData(d)}
                    \cup {[cols |-> Cols(d) + 1, rows |-> r] : r \in WideData(d)}

(***************************************************************************)
(* kdtree: distance, radius query.                                         *)
(***************************************************************************)
RECURSIVE SumSq(_, _, _)
SumSq(a, b, k) ==
    IF k = 0 THEN 0 ELSE (a[k] - b[k]) * (a[k] - b[k]) + SumSq(a, b, k - 1)

squared_euclidean(a, b) == SumSq(a, b, Len(a))

\* eps is not squared
powi2_none(x) == x

\* line 98: eps.powi(2)
powi2(x) == x * x

\* the indices in hits, nearest to row first (ties: smaller index first)
ByDistance(d, row, hits) ==
    LET ordered[h \in SUBSET (1..Len(d))] ==
            IF h = {} THEN <<>>
            ELSE LET first == CHOOSE j \in h : \A k \in h :
                                  \/ squared_euclidean(row, d[j]) < squared_euclidean(row, d[k])
                                  \/ /\ squared_euclidean(row, d[j]) = squared_euclidean(row, d[k])
                                     /\ j <= k
                 IN <<first>> \o ordered[h \ {first}]
    IN ordered[hits]

\* the test of the dimension of a query point, failing which within returns
\* an error
check_point(d, row) == Len(row) = Cols(d)

\* kdt.within(row, radius, &squared_euclidean) over the tree of kdtree_init(d)
within(d, row, radius) ==
    ByDistance(d, row, {j \in 1..Len(d) : squared_euclidean(row, d[j]) <= radius})

\* region_query pushes the indices found onto the buffer it is given
region_query(row, e, d, buf) == buf \o within(d, row, powi2(e))

(***************************************************************************)
(* Vec operations.                                                         *)
(***************************************************************************)
\* clear left out
clear_kept(v) == v

clear(v) == <<>>

sort_unstable(v) ==
    LET sorted[w \in Seq(Int)] ==
            IF w = <<>> THEN <<>>
            ELSE LET m == CHOOSE x \in Range(w) : \A y \in Range(w) : x <= y
                 IN SelectSeq(w, LAMBDA x : x = m) \o sorted[SelectSeq(w, LAMBDA x : x # m)]
    IN sorted[v]

\* Vec::dedup removes consecutive repeated elements
dedup(v) ==
    LET deduped[w \in Seq(Int)] ==
            IF Len(w) <= 1 THEN w
            ELSE IF w[1] = w[2] THEN deduped[Tail(w)]
                 ELSE <<w[1]>> \o deduped[Tail(w)]
    IN deduped[v]

\* Itertools::unique keeps the first occurrence of every element
RECURSIVE unique(_)
unique(v) ==
    IF v = <<>> THEN <<>>
    ELSE LET init == unique(SubSeq(v, 1, Len(v) - 1))
             last == v[Len(v)]
         IN IF last \in Range(init) THEN init ELSE Append(init, last)

(***************************************************************************)
(* Dbscan::new.  A frame holds the arguments and the locals of one call.   *)
(***************************************************************************)
VARIABLES data, eps, min_points, borders,
          indices, pos, pc,
          c, neighbours, sub_neighbours, visited, clusters,
          model, new_data, new_cols, classes, called, repeated, queries

vars == <<data, eps, min_points, borders, indices, pos, pc,
          c, neighbours, sub_neighbours, visited, clusters,
          model, new_data, new_cols, classes, called, repeated, queries>>

\* lines 19-26: the locals at the head of the for loop, indices being the
\* permutation sample() returned.  queries is no local of the source: it
\* tells of every row how often region_query was called with it as the
\* centre, 2 standing for more than once.
Entry(d, e, mp, b, order) ==
    [data |-> d, eps |-> e, min_points |-> mp, borders |-> b,
     indices |-> order, pos |-> 1, pc |-> "outer",
     c |-> 1, neighbours |-> <<>>, sub_neighbours |-> <<>>,
     visited |-> [i \in 1..Len(d) |-> FALSE],
     clusters |-> [i \in 1..Len(d) |-> 0],
     queries |-> [i \in 1..Len(d) |-> 0]]

\* lines 33, 46: a call of region_query centred on row i is counted
queried(q, i) == [q EXCEPT ![i] = IF @ < 2 THEN @ + 1 ELSE 2]

\* the for loop has run out of indices
Exhausted(f) == f.pc = "outer" /\ f.pos > Len(f.indices)

\* > for >=
dense_strict(buf, mp) == Len(buf) > mp

\* the row itself is not counted
dense_others(buf, mp) == Len(buf) - 1 >= mp

\* lines 37, 48: the density test on a query result
dense(buf, mp) == Len(buf) >= mp

\* the test of borders left out
colour_popped_always(cl, j, id, b) == [cl EXCEPT ![j] = id]

\* a label is left as it is
colour_popped_first(cl, j, id, b) == IF b /\ cl[j] = 0 THEN [cl EXCEPT ![j] = id] ELSE cl

\* lines 40-42
colour_popped(cl, j, id, b) == IF b THEN [cl EXCEPT ![j] = id] ELSE cl

\* lines 49-51
colour_core(cl, j, id, b) == IF ~b THEN [cl EXCEPT ![j] = id] ELSE cl

\* the query result is not added to the working set
merge_none(nb, sub) == nb

\* lines 52-54
merge(nb, sub) == dedup(sort_unstable(nb \o sub))

\* the counter is not incremented
next_id_same(id) == id

\* the counter is incremented twice
next_id_twice(id) == id + 2

\* line 58
next_id(id) == id + 1

\* line 38 left out
Visit_unlabelled(f) ==
    LET row_idx == f.indices[f.pos]
        nb == dedup(sort_unstable(
                  region_query(f.data[row_idx], f.eps, f.data, clear(f.neighbours))))
        g == [f EXCEPT !.visited[row_idx] = TRUE, !.neighbours = nb,
                       !.queries = queried(f.queries, row_idx)]
    IN IF dense(nb, f.min_points)
       THEN [g EXCEPT !.pc = "expand"]
       ELSE [g EXCEPT !.pos = f.pos + 1]

\* line 30 left out
Visit_unmarked(f) ==
    LET row_idx == f.indices[f.pos]
        nb == dedup(sort_unstable(
                  region_query(f.data[row_idx], f.eps, f.data, clear(f.neighbours))))
        g == [f EXCEPT !.neighbours = nb, !.queries = queried(f.queries, row_idx)]
    IN IF dense(nb, f.min_points)
       THEN [g EXCEPT !.clusters[row_idx] = f.c, !.pc = "expand"]
       ELSE [g EXCEPT !.visited[row_idx] = TRUE, !.pos = f.pos + 1]

\* lines 30-38, the row is not visited
Visit(f) ==
    LET row_idx == f.indices[f.pos]
        nb == dedup(sort_unstable(
                  region_query(f.data[row_idx], f.eps, f.data, clear(f.neighbours))))
        g == [f EXCEPT !.visited[row_idx] = TRUE, !.neighbours = nb,
                       !.queries = queried(f.queries, row_idx)]
    IN IF dense(nb, f.min_points)
       THEN [g EXCEPT !.clusters[row_idx] = f.c, !.pc = "expand"]
       ELSE [g EXCEPT !.pos = f.pos + 1]

\* the test of line 29 left out: a row visited already is visited again
Skip_revisit(f) == Visit(f)

\* line 29, the row is visited already: next index
Skip(f) == [f EXCEPT !.pos = f.pos + 1]

\* lines 40-42 moved into the branch of the rows not visited yet
Pop_unvisited(f) ==
    LET neighbour_idx == f.neighbours[Len(f.neighbours)]
        rest == SubSeq(f.neighbours, 1, Len(f.neighbours) - 1)
        cl == colour_popped(f.clusters, neighbour_idx, f.c, f.borders)
    IN IF f.visited[neighbour_idx]
       THEN [f EXCEPT !.neighbours = rest]
       ELSE LET sub == region_query(f.data[neighbour_idx], f.eps, f.data,
                                    clear(f.sub_neighbours))
                g == [f EXCEPT !.visited[neighbour_idx] = TRUE, !.sub_neighbours = sub,
                               !.queries = queried(f.queries, neighbour_idx)]
            IN IF dense(sub, f.min_points)
               THEN [g EXCEPT !.clusters = colour_core(cl, neighbour_idx, f.c, f.borders),
                              !.neighbours = merge(rest, sub)]
               ELSE [g EXCEPT !.clusters = cl, !.neighbours = rest]

\* line 44 left out
Pop_unmarked(f) ==
    LET neighbour_idx == f.neighbours[Len(f.neighbours)]
        rest == SubSeq(f.neighbours, 1, Len(f.neighbours) - 1)
        cl == colour_popped(f.clusters, neighbour_idx, f.c, f.borders)
    IN IF f.visited[neighbour_idx]
       THEN [f EXCEPT !.neighbours = rest, !.clusters = cl]
       ELSE LET sub == region_query(f.data[neighbour_idx], f.eps, f.data,
                                    clear(f.sub_neighbours))
                g == [f EXCEPT !.sub_neighbours = sub,
                               !.queries = queried(f.queries, neighbour_idx)]
            IN IF dense(sub, f.min_points)
               THEN [g EXCEPT !.clusters = colour_core(cl, neighbour_idx, f.c, f.borders),
                              !.neighbours = merge(rest, sub)]
               ELSE [g EXCEPT !.clusters = cl, !.neighbours = rest]

\* lines 39-57, one iteration of the while loop
Pop(f) ==
    LET neighbour_idx == f.neighbours[Len(f.neighbours)]
        rest == SubSeq(f.neighbours, 1, Len(f.neighbours) - 1)
        cl == colour_popped(f.clusters, neighbour_idx, f.c, f.borders)
    IN IF f.visited[neighbour_idx]
       THEN [f EXCEPT !.neighbours = rest, !.clusters = cl]
       ELSE LET sub == region_query(f.data[neighbour_idx], f.eps, f.data,
                                    clear(f.sub_neighbours))
                g == [f EXCEPT !.visited[neighbour_idx] = TRUE, !.sub_neighbours = sub,
                               !.queries = queried(f.queries, neighbour_idx)]
            IN IF dense(sub, f.min_points)
               THEN [g EXCEPT !.clusters = colour_core(cl, neighbour_idx, f.c, f.borders),
                              !.neighbours = merge(rest, sub)]
               ELSE [g EXCEPT !.clusters = cl, !.neighbours = rest]

\* line 58 and the next index, the working set being empty
EndCluster(f) == [f EXCEPT !.c = next_id(f.c), !.pos = f.pos + 1, !.pc = "outer"]

\* one step of the call
Step(f) ==
    IF f.pc = "expand"
    THEN IF f.neighbours = <<>> THEN EndCluster(f) ELSE Pop(f)
    ELSE IF f.visited[f.indices[f.pos]] THEN Skip(f) ELSE Visit(f)

\* lines 63-67
Dbscan(f) == [eps |-> f.eps, min_points |-> f.min_points, clusters |-> f.clusters]

\* the call run to its end; every step visits a row, pops an index or moves
\* on in indices
RECURSIVE Run(_)
Run(f) == IF Exhausted(f) THEN f ELSE Run(Step(f))

new(d, e, mp, b, order) == Dbscan(Run(Entry(d, e, mp, b, order)))

(***************************************************************************)
(* Dbscan::predict.                                                        *)
(***************************************************************************)
RECURSIVE Map(_, _)
Map(cl, idxs) == IF idxs = <<>> THEN <<>> ELSE <<cl[Head(idxs)]>> \o Map(cl, Tail(idxs))

\* unique() left out
neighbour_clusters_repeated(self, nb) ==
    SelectSeq(Map(self.clusters, nb), LAMBDA x : x > 0)

\* line 78
neighbour_clusters(self, nb) ==
    SelectSeq(unique(Map(self.clusters, nb)), LAMBDA x : x > 0)

\* the else branch left out
row_classes_empty(nc) == nc

\* lines 79-83
row_classes(nc) == IF Len(nc) > 0 THEN nc ELSE <<0>>

\* lines 75-84, the closure on the rows from k on; buf is neighbours
RECURSIVE predict_rows(_, _, _, _, _)
predict_rows(self, d, rows, k, buf) ==
    IF k > Len(rows) THEN <<>>
    ELSE LET nb == region_query(rows[k], self.eps, d, clear(buf))
         IN <<row_classes(neighbour_clusters(self, nb))>>
                \o predict_rows(self, d, rows, k + 1, nb)

\* lines 70-86
predict(self, d, rows) == predict_rows(self, d, rows, 1, <<>>)

\* line 98: expect panics on the error within returns for a row that fails
\* check_point; the closure of line 75 calls region_query for every row
panics(d, rows) == \E k \in 1..Len(rows) : ~check_point(d, rows[k])

(***************************************************************************)
(* The state machine.                                                      *)
(***************************************************************************)
NoModel == [eps |-> 0, min_points |-> 0, clusters |-> <<>>]

Frame ==
    [data |-> data, eps |-> eps, min_points |-> min_points, borders |-> borders,
     indices |-> indices, pos |-> pos, pc |-> pc,
     c |-> c, neighbours |-> neighbours, sub_neighbours |-> sub_neighbours,
     visited |-> visited, clusters |-> clusters, queries |-> queries]

Load(f) ==
    /\ data = f.data /\ eps = f.eps /\ min_points = f.min_points /\ borders = f.borders
    /\ indices = f.indices /\ pos = f.pos /\ pc = f.pc
    /\ c = f.c /\ neighbours = f.neighbours /\ sub_neighbours = f.sub_neighbours
    /\ visited = f.visited /\ clusters = f.clusters /\ queries = f.queries

Store(f) ==
    /\ indices' = f.indices /\ pos' = f.pos /\ pc' = f.pc
    /\ c' = f.c /\ neighbours' = f.neighbours /\ sub_neighbours' = f.sub_neighbours
    /\ visited' = f.visited /\ clusters' = f.clusters /\ queries' = f.queries
    /\ UNCHANGED <<data, eps, min_points, borders,
                   model, new_data, new_cols, classes, called, repeated>>

Init ==
    /\ \E i \in Inputs :
          \E order \in Perms(Len(i.data)) :
              Load(Entry(i.data, i.eps, i.min_points, i.borders, order))
    /\ model = NoModel
    /\ new_data = <<>>
    /\ new_cols = 0
    /\ classes = <<>>
    /\ called = FALSE
    /\ repeated = FALSE

InLoop == pc = "outer" /\ pos <= Len(indices)

SkipVisited ==
    /\ InLoop /\ visited[indices[pos]]
    /\ \E f \in {Skip(Frame)} : Store(f)

VisitNoise ==
    /\ InLoop /\ ~visited[indices[pos]]
    /\ \E f \in {Visit(Frame)} : f.pc = "outer" /\ Store(f)

VisitSeed ==
    /\ InLoop /\ ~visited[indices[pos]]
    /\ \E f \in {Visit(Frame)} : f.pc = "expand" /\ Store(f)

ExpandPop ==
    /\ pc = "expand" /\ neighbours # <<>>
    /\ \E f \in {Pop(Frame)} : Store(f)

ExpandEnd ==
    /\ pc = "expand" /\ neighbours = <<>>
    /\ \E f \in {EndCluster(Frame)} : Store(f)

\* no model is returned for a data without rows
FitReturn_nonempty ==
    /\ Exhausted(Frame)
    /\ Len(data) > 0
    /\ model' = Dbscan(Frame)
    /\ pc' = "fitted"
    /\ eps' = 0 /\ min_points' = 0 /\ borders' = FALSE
    /\ indices' = <<>> /\ pos' = 0 /\ c' = 0
    /\ neighbours' = <<>> /\ sub_neighbours' = <<>>
    /\ visited' = <<>> /\ clusters' = <<>> /\ queries' = <<>>
    /\ UNCHANGED <<data, new_data, new_cols, classes, called, repeated>>

\* lines 63-68: the model is returned; the arguments passed by value and the
\* locals are gone, the caller keeps data
FitReturn ==
    /\ Exhausted(Frame)
    /\ model' = Dbscan(Frame)
    /\ pc' = "fitted"
    /\ eps' = 0 /\ min_points' = 0 /\ borders' = FALSE
    /\ indices' = <<>> /\ pos' = 0 /\ c' = 0
    /\ neighbours' = <<>> /\ sub_neighbours' = <<>>
    /\ visited' = <<>> /\ clusters' = <<>> /\ queries' = <<>>
    /\ UNCHANGED <<data, new_data, new_cols, classes, called, repeated>>

\* a predict that writes the first label it found for a reference row that is
\* a row of new_data into the model
PredictRelabels ==
    /\ pc = "fitted"
    /\ \E a \in NewArrays(data) :
          /\ ~panics(data, a.rows)
          /\ new_data' = a.rows
          /\ new_cols' = a.cols
          /\ classes' = predict(model, data, a.rows)
    /\ model' = [model EXCEPT !.clusters =
                    [j \in 1..Len(data) |->
                        IF \E k \in 1..Len(new_data') : new_data'[k] = data[j]
                        THEN Head(classes'[CHOOSE k \in 1..Len(new_data') :
                                               new_data'[k] = data[j]])
                        ELSE model.clusters[j]]]
    /\ called' = TRUE
    /\ repeated' = (called /\ new_data' = new_data /\ new_cols' = new_cols)
    /\ UNCHANGED <<data, eps, min_points, borders, indices, pos, pc,
                   c, neighbours, sub_neighbours, visited, clusters, queries>>

\* model.predict(&data, &new_data) by the caller that fitted the model on
\* data; new_cols is the number of columns of new_data, called tells that
\* there was a call that returned, repeated that the last call was given the
\* new_data of the call before it
Predict ==
    /\ pc = "fitted"
    /\ \E a \in NewArrays(data) :
          /\ ~panics(data, a.rows)
          /\ new_data' = a.rows
          /\ new_cols' = a.cols
          /\ classes' = predict(model, data, a.rows)
    /\ called' = TRUE
    /\ repeated' = (called /\ new_data' = new_data /\ new_cols' = new_cols)
    /\ UNCHANGED <<data, eps, min_points, borders, indices, pos, pc,
                   c, neighbours, sub_neighbours, visited, clusters, queries, model>>

\* the error of within is swallowed: the call returns, with no class for any
\* row
PredictPanic_swallowed ==
    /\ pc = "fitted"
    /\ \E a \in NewArrays(data) :
          /\ panics(data, a.rows)
          /\ new_data' = a.rows
          /\ new_cols' = a.cols
          /\ classes' = [k \in 1..Len(a.rows) |-> <<0>>]
    /\ called' = TRUE
    /\ repeated' = (called /\ new_data' = new_data /\ new_cols' = new_cols)
    /\ UNCHANGED <<data, eps, min_points, borders, indices, pos, pc,
                   c, neighbours, sub_neighbours, visited, clusters, queries, model>>

\* lines 75-77, 98: a predict whose query panics: the call returns nothing,
\* the caller keeps what it had
PredictPanic ==
    /\ pc = "fitted"
    /\ \E a \in NewArrays(data) :
          /\ panics(data, a.rows)
          /\ new_data' = a.rows
          /\ new_cols' = a.cols
    /\ pc' = "panicked"
    /\ UNCHANGED <<data, eps, min_points, borders, indices, pos,
                   c, neighbours, sub_neighbours, visited, clusters, queries,
                   model, classes, called, repeated>>

Next ==
    \/ SkipVisited
    \/ VisitNoise
    \/ VisitSeed
    \/ ExpandPop
    \/ ExpandEnd
    \/ FitReturn
    \/ Predict
    \/ PredictPanic

Spec == Init /\ [][Next]_vars

TypeOK ==
    /\ pc \in {"outer", "expand", "fitted", "panicked"}
    /\ pc \in {"outer", "expand"} => /\ Len(clusters) = Len(data)
                        /\ Len(visited) = Len(data)
                        /\ c >= 1
(***************************************************************************)
(* Notions the properties are stated in, computed from the point set, not  *)
(* from the run.                                                           *)
(***************************************************************************)
Rows == 1..Len(data)

\* the loop of Dbscan::new is over: clusters is the label assignment returned
Done == Exhausted(Frame)

NearAt(e, i, j) == squared_euclidean(data[i], data[j]) <= e * e

CoreAt(e, i) == Cardinality({j \in Rows : NearAt(e, i, j)}) >= min_points

\* the core points joined to the core points of S by chains of core points
RECURSIVE ChainClosure(_, _)
ChainClosure(e, S) ==
    LET T == S \cup {k \in Rows : CoreAt(e, k) /\ \E s \in S : NearAt(e, s, k)}
    IN IF T = S THEN S ELSE ChainClosure(e, T)

Near(i, j) == NearAt(eps, i, j)

Core(i) == CoreAt(eps, i)

Cores == {i \in Rows : Core(i)}

Chain(i) == ChainClosure(eps, {i})

\* within eps of some core point (every core point is)
Reached(i) == \E j \in Cores : Near(i, j)

\* a non-core point within eps of core points of two chains
TieBorder(i) ==
    /\ ~Core(i)
    /\ \E j \in Cores : Near(i, j) /\ \E k \in Cores \ Chain(j) : Near(i, k)

Labels(cl) == {cl[i] : i \in 1..Len(cl)} \ {0}

\* C1: when the fit is over, two core points carry the same non-zero label
\* exactly when a chain of core points, each within eps of the next, joins
\* them, for both values of borders and every order of indices.
C1_CoreChains ==
    Done => \A i, j \in Cores :
                (clusters[i] # 0 /\ clusters[i] = clusters[j]) <=> (j \in Chain(i))

\* a fit is over in which two core points farther apart than eps are joined
\* by a chain and share a label, and a third core point is in another chain
C1_Witness ==
    /\ Done
    /\ \E i, j, k \in Cores :
          /\ ~Near(i, j) /\ j \in Chain(i) /\ clusters[i] = clusters[j]
          /\ k \notin Chain(i) /\ clusters[k] # clusters[i] /\ clusters[k] # 0

(***************************************************************************)
(* Well-separated dense groups.  A set P of rows is made of such groups    *)
(* when no two of its rows are exactly eps apart, being less than eps      *)
(* apart is transitive on P (the groups are its classes) and every class   *)
(* has at least min_points rows.                                           *)
(***************************************************************************)
Closer(i, j) == squared_euclidean(data[i], data[j]) < eps * eps

Group(P, i) == {j \in P : Closer(i, j)}

Grouped(P) ==
    /\ \A i, j \in P : Closer(i, j) \/ ~Near(i, j)
    /\ \A i, j, k \in P : Closer(i, j) /\ Closer(j, k) => Closer(i, k)
    /\ \A i \in P : Cardinality(Group(P, i)) >= min_points

\* no further group can be added to P
MaximalGrouped(P) ==
    /\ Grouped(P)
    /\ \A Q \in SUBSET Rows : Grouped(Q) /\ P \subseteq Q => Q = P

\* one distinct non-zero label per group of P, label 0 outside P
GroupLabels(P) ==
    /\ \A i, j \in P : clusters[i] # 0 /\ (clusters[i] = clusters[j] <=> Closer(i, j))
    /\ \A o \in Rows \ P : clusters[o] = 0

\* the rows outside P are no core points and farther than eps from P
OutsideApart(P) ==
    \A o \in Rows \ P : ~Core(o) /\ \A i \in P : ~Near(o, i)

\* C2 as stated: for the groups of the point set (as many as it has), the fit
\* gives one distinct non-zero label per group and label 0 to every other row.
C2_GroupsAsStated ==
    Done => \A P \in SUBSET Rows : MaximalGrouped(P) => GroupLabels(P)

\* C2 as amended: the same, for every family of groups, provided every row
\* outside the groups is farther than eps from every row of a group and has
\* fewer than min_points rows within eps.
C2_Groups ==
    Done => \A P \in SUBSET Rows : Grouped(P) /\ OutsideApart(P) => GroupLabels(P)

\* a fit is over on two groups and a row outside them
C2_Witness ==
    /\ Done
    /\ \E P \in SUBSET Rows :
          /\ Grouped(P) /\ OutsideApart(P)
          /\ \E i, j \in P : ~Closer(i, j)
          /\ P # Rows

\* C3: with borders = false, when the fit is over a row has a non-zero label
\* exactly when it is a core point.
C3_CoreOnly ==
    Done /\ ~borders => \A i \in Rows : clusters[i] # 0 <=> Core(i)

\* a fit without borders is over and left 0 on a non-core row within eps of a
\* labelled core point
C3_Witness ==
    /\ Done /\ ~borders
    /\ \E i \in Rows, j \in Cores :
          ~Core(i) /\ Near(i, j) /\ clusters[i] = 0 /\ clusters[j] # 0

\* C4: with borders = true, when the fit is over a row has a non-zero label
\* exactly when it is a core point or within eps of a core point.
C4_Borders ==
    Done /\ borders => \A i \in Rows : clusters[i] # 0 <=> Reached(i)

\* a fit with borders is over whose first visited row is no core point (it
\* was left as noise) and carries a cluster label
C4_Witness ==
    /\ Done /\ borders /\ Rows # {}
    /\ ~Core(indices[1]) /\ clusters[indices[1]] # 0

\* the place in indices of the first core point labelled k
FirstOf(k) ==
    CHOOSE p \in 1..Len(indices) :
        /\ Core(indices[p]) /\ clusters[indices[p]] = k
        /\ \A q \in 1..(p - 1) : ~(Core(indices[q]) /\ clusters[indices[q]] = k)

\* C5: when the fit is over there is one label per row, the non-zero labels
\* are exactly 1..c-1 (c-1 clusters were started), each of them is carried by
\* a core point, and the ids follow the order in which indices reaches the
\* clusters.
C5_Contiguous ==
    Done => /\ Len(clusters) = Len(data)
            /\ Labels(clusters) = 1..(c - 1)
            /\ \A k \in 1..(c - 1) : \E i \in Cores : clusters[i] = k
            /\ \A k \in 1..(c - 2) : FirstOf(k) < FirstOf(k + 1)

\* a fit with borders is over in which a non-core row within eps of a core
\* point of cluster 1 carries the label of the later cluster 2
C5_Witness ==
    /\ Done /\ borders /\ c = 3
    /\ \E b \in Rows, i \in Cores :
          ~Core(b) /\ Near(b, i) /\ clusters[i] = 1 /\ clusters[b] = 2
(***************************************************************************)
(* predict.                                                                *)
(***************************************************************************)
Fitted == pc = "fitted"

NoRepeat(v) == \A a, b \in 1..Len(v) : a # b => v[a] # v[b]

\* the non-zero fitted labels of the reference rows within eps of row
LabelsNear(row) ==
    {model.clusters[j] :
        j \in {r \in Rows : squared_euclidean(row, data[r]) <= model.eps * model.eps}} \ {0}

\* C6: the result of predict has one entry per row of new_data, in order; the
\* entry of a row is, without repetition, the set of the non-zero fitted labels
\* of the reference rows within eps of it, and <<0>> when there is none.
C6_PredictSets ==
    Fitted => /\ Len(classes) = Len(new_data)
              /\ \A k \in 1..Len(new_data) :
                    /\ NoRepeat(classes[k])
                    /\ IF LabelsNear(new_data[k]) = {}
                       THEN classes[k] = <<0>>
                       ELSE Range(classes[k]) = LabelsNear(new_data[k])

\* predict returned two labels for a first row and <<0>> for a second one
C6_Witness ==
    /\ Fitted /\ Len(new_data) = 2
    /\ Len(classes[1]) = 2
    /\ classes[2] = <<0>>

\* C7: a new row equal to a reference row with a non-zero fitted label gets a
\* result holding that label; a new row farther than eps from every reference
\* row gets exactly <<0>>.
C7_Coincident ==
    Fitted => \A k \in 1..Len(classes) :
                 /\ \A j \in Rows :
                       new_data[k] = data[j] /\ model.clusters[j] # 0
                           => model.clusters[j] \in Range(classes[k])
                 /\ (\A j \in Rows :
                        squared_euclidean(new_data[k], data[j]) > model.eps * model.eps)
                           => classes[k] = <<0>>

\* predict was asked about a labelled reference row and about a row far from
\* a non-empty reference set
C7_Witness ==
    /\ Fitted /\ Len(classes) = 2 /\ Rows # {}
    /\ \E j \in Rows : new_data[1] = data[j] /\ model.clusters[j] # 0
    /\ \A j \in Rows : squared_euclidean(new_data[2], data[j]) > model.eps * model.eps
    /\ \E j \in Rows : model.clusters[j] # 0

InOrder == new(data, eps, min_points, borders, Identity(Len(data))).clusters

\* Two label assignments are alike when they give 0 to the same rows and
\* the same label to the same pairs of rows, tie borders left out.  Being
\* alike is an equivalence, so that every run being like the run in the
\* order 1, 2, ... makes any two runs alike.
Alike(cl, other) ==
    LET sure == {i \in Rows : ~TieBorder(i)}
    IN /\ \A i \in Rows : cl[i] = 0 <=> other[i] = 0
       /\ \A i, j \in sure : cl[i] = cl[j] <=> other[i] = other[j]

\* C9: the fit in any order of indices and the fit in another order give 0 to
\* the same rows and join the same rows, equal up to the names of the
\* clusters, but for the non-core rows within eps of core points of two
\* clusters.
C9_OrderFree == Done => LET other == InOrder IN Alike(clusters, other)

\* a fit is over that gave a tie border to another neighbouring cluster than
\* the fit in the order 1, 2, ... does
C9_Witness ==
    /\ Done
    /\ LET other == InOrder
       IN \E b \in Rows, k \in Cores :
             /\ TieBorder(b) /\ Near(b, k)
             /\ clusters[b] = clusters[k]
             /\ other[b] # other[k]

\* the number of clusters of the fit of the same rows in the same order with
\* radius e
ClustersWith(e) ==
    Cardinality(Labels(new(data, e, min_points, borders, indices).clusters))

\* no noise with radius e: every row is within e of a core point
NoNoiseAt(e) ==
    \A i \in Rows : \E j \in Rows : CoreAt(e, j) /\ NearAt(e, i, j)

\* C10 as stated: a larger eps never gives more clusters.
C10_MonotoneAsStated ==
    Done => LET found == Cardinality(Labels(clusters))
            IN \A e2 \in EpsValues : eps < e2 => ClustersWith(e2) <= found

\* C10 as amended: a larger eps never gives more clusters, provided the
\* smaller eps leaves no noise (every row is a core point or within eps of
\* one).
C10_Monotone ==
    Done /\ NoNoiseAt(eps) =>
        LET found == Cardinality(Labels(clusters))
        IN \A e2 \in EpsValues : eps < e2 => ClustersWith(e2) <= found

\* a fit without noise is over, with a non-core row, and a larger eps joins
\* its clusters into fewer
C10_Witness ==
    /\ Done /\ NoNoiseAt(eps)
    /\ \E i \in Rows : ~Core(i)
    /\ \E e2 \in EpsValues : eps < e2 /\ ClustersWith(e2) < Cardinality(Labels(clusters))

(***************************************************************************)
(* C11.                                                                    *)
(***************************************************************************)
\* the rows joined to the rows of S by a path of steps of at most eps
RECURSIVE Connected(_)
Connected(S) ==
    LET T == S \cup {k \in Rows : \E s \in S : Near(s, k)}
    IN IF T = S THEN S ELSE Connected(T)

Component(i) == Connected({i})

\* C11: with min_points = 1 every row is core, no row has the label 0 and two
\* rows have the same label exactly when they are in the same connected
\* component of the graph that joins the rows at most eps apart, for either
\* value of borders and every order of visiting.
C11_Components ==
    Done /\ min_points = 1 =>
        /\ \A i \in Rows : Core(i) /\ clusters[i] # 0
        /\ \A i, j \in Rows : (clusters[i] = clusters[j]) <=> (j \in Component(i))

\* a component with two rows more than eps apart, beside another component,
\* the seed of the first being the row in its middle
C11_Witness ==
    /\ Done /\ min_points = 1 /\ ~borders
    /\ \E i, j, k \in Rows :
          /\ ~Near(i, j) /\ j \in Component(i) /\ k \notin Component(i)
          /\ clusters[i] = clusters[j] /\ clusters[k] # clusters[i]
          /\ \E m \in Component(i) \ {i, j} : clusters[m] = 1 /\ indices[1] = m

(***************************************************************************)
(* C12.                                                                    *)
(***************************************************************************)
\* the rows at a squared distance of at most eps squared from row i, row i
\* among them
Within(i) == {j \in Rows : squared_euclidean(data[i], data[j]) <= eps * eps}

\* the index the next pop() yields
Top == neighbours[Len(neighbours)]

\* C12: the fit takes a row for core exactly when the rows at a squared
\* distance of at most eps squared from it, itself and the rows at exactly
\* eps counted, are at least min_points; the row visited from indices is
\* tested so (it then seeds a cluster), and so is the row popped unvisited
\* from the working set (its neighbourhood then joins the working set).
C12_CoreTest ==
    [][/\ InLoop /\ ~visited[indices[pos]] =>
            /\ Range(neighbours') = Within(indices[pos])
            /\ (pc' = "expand") <=> (Cardinality(Within(indices[pos])) >= min_points)
       /\ pc = "expand" /\ neighbours # <<>> /\ ~visited[Top] =>
            /\ Range(sub_neighbours') = Within(Top)
            /\ (Top \in Range(neighbours')) <=> (Cardinality(Within(Top)) >= min_points)
            /\ (Cardinality(Within(Top)) >= min_points) =>
                   Within(Top) \subseteq Range(neighbours')]_vars

\* a row popped from the working set was taken for core with exactly
\* min_points rows in its neighbourhood, one of them at exactly eps
C12_Witness ==
    /\ pc = "expand"
    /\ \E i \in Rows :
          /\ i # indices[pos] /\ visited[i] /\ i \in Range(neighbours)
          /\ Cardinality(Within(i)) = min_points
          /\ \E j \in Within(i) : squared_euclidean(data[i], data[j]) = eps * eps

(***************************************************************************)
(* C13.                                                                    *)
(***************************************************************************)
\* the other rows within eps of row i
Others(i) == Within(i) \ {i}

Fitting == pc \in {"outer", "expand"}

\* C13 as stated: a row is core when at least min_points other rows are
\* within eps of it; a row visited has a label other than 0 if it is core,
\* and without borders only if it is core.
C13_OthersAsStated ==
    Fitting =>
        \A i \in Rows :
            /\ visited[i] /\ Cardinality(Others(i)) >= min_points => clusters[i] # 0
            /\ ~borders /\ clusters[i] # 0 => Cardinality(Others(i)) >= min_points

\* C13: a row is core when at least min_points rows, the row itself counted,
\* are within eps of it, that is at least min_points - 1 other rows; a row
\* visited has a label other than 0 if it is core, and without borders only
\* if it is core.
C13_SelfCounted ==
    Fitting =>
        \A i \in Rows :
            /\ visited[i] /\ Cardinality(Others(i)) >= min_points - 1 => clusters[i] # 0
            /\ ~borders /\ clusters[i] # 0 => Cardinality(Others(i)) >= min_points - 1

\* without borders a row with exactly min_points - 1 other rows within eps
\* is labelled, and a row with fewer, within eps of a labelled row, is not
C13_Witness ==
    /\ Done /\ ~borders
    /\ \E i, k \in Rows :
          /\ Cardinality(Others(i)) = min_points - 1 /\ clusters[i] # 0
          /\ Cardinality(Others(k)) < min_points - 1 /\ clusters[k] = 0
          /\ \E m \in Others(k) : clusters[m] # 0

(***************************************************************************)
(* C14.                                                                    *)
(***************************************************************************)
\* C14 as stated: a fit of a point set without rows fails; no model is
\* produced.
C14_EmptyFailsAsStated == Len(data) = 0 => model = NoModel

\* C14: a fit of a point set without rows does not fail: the loop is over at
\* once, no row is labelled, no cluster id is given out, the call returns,
\* and the model it returns has an empty label assignment.
C14_EmptyFits ==
    Len(data) = 0 =>
        /\ Fitting => Done /\ clusters = <<>> /\ c = 1 /\ ENABLED FitReturn
        /\ ~Fitting => model # NoModel /\ model.clusters = <<>>

\* the model of a fit of a point set without rows
C14_Witness == Len(data) = 0 /\ Fitted /\ model.eps > 0 /\ model.clusters = <<>>

(***************************************************************************)
(* C15.                                                                    *)
(***************************************************************************)
\* the new_data of the call that is the step has not the columns of data
Mismatched == new_cols' # Cols(data)

\* C15 as stated: a predict whose new_data has not the columns of the
\* reference data fails and returns nothing.
C15_MismatchAsStated ==
    [][Fitted /\ Mismatched => pc' = "panicked" /\ classes' = classes]_vars

\* C15: a predict whose new_data has at least one row and not the columns of
\* the reference data fails (the query of its first row panics) and returns
\* nothing; with no row it makes no query and returns the empty sequence; a
\* predict that returns, returns one entry for every row of new_data.
C15_MismatchPanics ==
    [][Fitted =>
          /\ Mismatched /\ new_data' # <<>> =>
                pc' = "panicked" /\ classes' = classes /\ called' = called
          /\ Mismatched /\ new_data' = <<>> => pc' = "fitted" /\ classes' = <<>>
          /\ pc' = "fitted" => Len(classes') = Len(new_data')]_vars

\* after a predict that returned classes, a predict with two rows of another
\* number of columns panicked
C15_Witness ==
    /\ pc = "panicked" /\ new_cols # Cols(data) /\ Len(new_data) = 2
    /\ called /\ \E k \in 1..Len(classes) : classes[k] # <<0>>

(***************************************************************************)
(* C16.                                                                    *)
(***************************************************************************)
\* C16: during a fit no visited flag goes back to false; region_query is
\* called with a row as its centre only at the step that sets the visited
\* flag of the row, so at most once; when the loop is over every row is
\* visited and was the centre of exactly one query.
C16_VisitedOnce ==
    /\ [](Fitting => \A i \in Rows : queries[i] = IF visited[i] THEN 1 ELSE 0)
    /\ [](Done => \A i \in Rows : visited[i] /\ queries[i] = 1)
    /\ [][Fitting /\ pc' \in {"outer", "expand"} =>
             \A i \in Rows :
                 /\ visited[i] => visited'[i]
                 /\ queries'[i] # queries[i] => ~visited[i] /\ visited'[i]]_vars

\* a row that is not core and within eps of two clusters was visited first,
\* then popped in the expansion of either cluster: it was queried once
C16_Witness ==
    /\ Done /\ c = 3
    /\ \E b \in Rows : TieBorder(b) /\ indices[1] = b /\ visited[b] /\ queries[b] = 1

(***************************************************************************)
(* C17.                                                                    *)
(***************************************************************************)
\* the labels of the core rows within eps of row b
CoreLabelsNear(b) == {clusters[k] : k \in {m \in Cores : Near(b, m)}}

\* C17: with borders, the label of a row that is not core and not 0 is the
\* label of a core row within eps of it; cluster ids being given out in the
\* order of the expansions, the expansion that reached the row last is the
\* one of the greatest id among the clusters with a core row within eps of
\* it, and that id is the label of the row.
C17_BorderLabel ==
    Done /\ borders =>
        \A b \in Rows :
            ~Core(b) /\ clusters[b] # 0 =>
                /\ clusters[b] \in CoreLabelsNear(b)
                /\ \A id \in CoreLabelsNear(b) : id <= clusters[b]

\* a row that is not core, within eps of a core row of cluster 1 and of a
\* core row of cluster 2, first reached by the expansion of cluster 1, has
\* the label 2
C17_Witness ==
    /\ Done /\ borders
    /\ \E b \in Rows :
          /\ ~Core(b) /\ CoreLabelsNear(b) = {1, 2} /\ clusters[b] = 2
          /\ \A p \in 1..Len(indices) :
                 indices[p] = b => \E q \in 1..(p - 1) : clusters[indices[q]] = 1

(***************************************************************************)
(* C18.  One call of Dbscan::new, run without a stop: the code is          *)
(* sequential and every step of it that can be taken is taken.             *)
(***************************************************************************)
FitStep ==
    \/ SkipVisited
    \/ VisitNoise
    \/ VisitSeed
    \/ ExpandPop
    \/ ExpandEnd
    \/ FitReturn

\* the calls of Spec but for those on the point set of seven rows
FitInit == Init /\ \A i \in TiePoints : data # i.data

FitSpec == FitInit /\ [][FitStep]_vars /\ WF_vars(FitStep)

\* C18: the fit terminates for every point set and every order of visiting:
\* every run, through every expansion (each over only when its working set
\* is empty) and the outer loop, reaches the return, and the model returned
\* has a label for every row.
C18_Terminates == <>(Fitted /\ Len(model.clusters) = Len(data))

\* the loop is over after two expansions in each of which a core row popped
\* from the working set put itself and its neighbourhood back into it
C18_Witness ==
    /\ Done /\ neighbours = <<>> /\ c = 3
    /\ \A k \in 1..2 : \E i, j \in Cores : i # j /\ clusters[i] = k /\ clusters[j] = k

(***************************************************************************)
(* C19.                                                                    *)
(***************************************************************************)
\* C19: during a fit the label of a core row, once it is not 0, does not
\* change, with or without borders; without borders no label that is not 0
\* changes, so a label is written at most once, from 0 to a cluster id; with
\* borders a label that changes is the label of a row that is not core, and
\* it changes to the id of the cluster being expanded.
C19_CoreLabelsKept ==
    [][Fitting /\ pc' \in {"outer", "expand"} =>
          \A i \in Rows :
              /\ Core(i) /\ clusters[i] # 0 => clusters'[i] = clusters[i]
              /\ ~borders /\ clusters[i] # 0 => clusters'[i] = clusters[i]
              /\ clusters'[i] # clusters[i] =>
                    /\ clusters'[i] = c
                    /\ clusters[i] # 0 => borders /\ ~Core(i) /\ clusters[i] < c]_vars

\* with borders, in the expansion of the second cluster, a row that is not
\* core and had the label 1 has the label 2, the core rows of the first
\* cluster keeping theirs
C19_Witness ==
    /\ pc = "expand" /\ borders /\ c = 2
    /\ \E b \in Rows :
          /\ ~Core(b) /\ clusters[b] = 2
          /\ \E i \in Cores : Near(b, i) /\ clusters[i] = 1
          /\ \A p \in 1..Len(indices) :
                 indices[p] = b => \E q \in 1..(p - 1) : clusters[indices[q]] = 1

====
